---- MODULE Spec2Model ----
(***************************************************************************)
(* The cart routes of server.js (GET/POST /cart, PUT/DELETE /cart/:id)     *)
(* over the Product and CartItem collections.                              *)
(*                                                                         *)
(* Every route handler is an async function: it runs atomically up to each *)
(* `await` of a store call that reads or writes the CartItem collection,   *)
(* and other requests may run in between.  A handler is therefore a chain  *)
(* of steps, one per such store call; a request slot holds the handler's   *)
(* position (pc) and its local variables (the loaded mongoose document).   *)
(* Products are never modified or deleted once created, so the reads of    *)
(* the Product collection are taken together with the step they belong to. *)
(* The store is taken to be reachable (a store call fails only for what    *)
(* the collections hold) and every request to carry a valid bearer token.  *)
(***************************************************************************)
EXTENDS Integers, FiniteSets, Sequences

VARIABLES
    products,   \* the Product collection: products[i] is the stock of the product with id i
    cart,       \* the CartItem collection: a set of documents [id, user, product, quantity]
    nextId,     \* the next fresh CartItem _id (ObjectIds are unique and never reused)
    req,        \* req[r]: the handler running in request slot r (pc and locals)
    response    \* the HTTP response the last step sent (NoResponse: it sent none)

vars == <<products, cart, nextId, req, response>>

----------------------------------------------------------------------------
(* Bounds of the model *)

MaxProducts == 1    \* products that POST /products may create
MaxStock == 2       \* largest stock a created product may have
MaxItems == 2       \* CartItem documents ever inserted
MaxQuantity == 4    \* largest quantity an entry may reach

Users == {"A", "B"}     \* the users `authenticate` resolves a bearer token to
Slots == {1, 2}         \* requests that may be in flight at the same time
SeqSlots == {1}         \* one request at a time

ProductIdInputs == 0..(MaxProducts + 1)    \* body.productId (0 is falsy in JS)
QuantityInputs == -1..(MaxStock + 1)       \* body.quantity
CartIdInputs == 1..MaxItems                \* params.id
StockInputs == {0, MaxStock}               \* body.stock of POST /products

----------------------------------------------------------------------------
(* Documents and responses *)

\* `null`: the result of a findOne / findById that matches nothing
NoDoc == [id |-> 0, user |-> "none", product |-> 0, quantity |-> 0]

\* a slot with no handler running
Idle == [pc |-> "idle", user |-> "none", product |-> 0, quantity |-> 0, doc |-> NoDoc]

\* new CartItem({ user, product, quantity }) with a fresh _id
NewCartItem(id, u, p, q) == [id |-> id, user |-> u, product |-> p, quantity |-> q]

\* Product.findOne({ id: p }): the product document, or NoProduct for null
NoProduct == [id |-> 0, stock |-> -1]
FindProduct(p) ==
    IF p \in DOMAIN products THEN [id |-> p, stock |-> products[p]] ELSE NoProduct

\* { ...cartItem.toObject(), product }: a cart entry joined with its product
Joined(item) ==
    [id |-> item.id, user |-> item.user, quantity |-> item.quantity,
     product |-> FindProduct(item.product)]

\* res.status(s).json(...) of route op: the status, the kind of error the message
\* names ("" on success) and the cart entries of the body
NoResponse == [op |-> "none", status |-> 0, error |-> "", body |-> {}]
Respond(op, s, err, body) ==
    response' = [op |-> op, status |-> s, error |-> err, body |-> body]
\* the step ends at an await: nothing is sent yet
NoReply == response' = NoResponse

\* the quantity validator of cartItemSchema (min: 1), run by save()
SchemaValid(q) == q >= 1

\* CartItem.findById(id)
FindById(id) == {e \in cart : e.id = id}

\* a find that forgets the user filter
FindAnyUser(u) == cart

\* CartItem.find({ user: u })
FindByUser(u) == {e \in cart : e.user = u}

\* CartItem.findOne({ user: u, product: p }): the documents it may return
FindByUserProduct(u, p) == {e \in cart : e.user = u /\ e.product = p}

\* a handler that forgets the ownership check
NoOwnerCheck(doc, u) == FALSE

\* cartItem.user.toString() !== req.user._id.toString()
NotOwner(doc, u) == doc.user # u

\* a handler that forgets the stock check
NoStockCheck(stock, q) == FALSE

\* product.stock < quantity
NotEnoughStock(stock, q) == stock < q

\* save() of a loaded document whose quantity was set to q: an updateOne
\* { _id } $set { quantity: q } on the collection
UpdateQuantity(c, id, q) ==
    {IF e.id = id THEN [e EXCEPT !.quantity = q] ELSE e : e \in c}

\* cartItem.deleteOne(): deleteOne { _id }
DeleteById(c, id) == {e \in c : e.id # id}

RECURSIVE SumQuantity(_)
SumQuantity(c) ==
    IF c = {} THEN 0
    ELSE LET e == CHOOSE x \in c : TRUE IN e.quantity + SumQuantity(c \ {e})

\* The model takes a write only if it keeps the collection within the bounds:
\* the ids within MaxItems and the quantities held within MaxQuantity in all.
WithinBounds(c) ==
    /\ \A e \in c : e.id <= MaxItems
    /\ SumQuantity(c) <= MaxQuantity

----------------------------------------------------------------------------
Init ==
    /\ products = <<>>
    /\ cart = {}
    /\ nextId = 1
    /\ req = [r \in Slots |-> Idle]
    /\ response = NoResponse

----------------------------------------------------------------------------
(* POST /products *)

CreateProduct(stock) ==
    /\ Len(products) < MaxProducts
    /\ products' = Append(products, stock)
    /\ NoReply
    /\ UNCHANGED <<cart, nextId, req>>

----------------------------------------------------------------------------
(* GET /cart *)

ListCart(r, u) ==
    /\ req[r].pc = "idle"
    /\ Respond("list", 200, "", {Joined(e) : e \in FindByUser(u)})
    /\ UNCHANGED <<products, cart, nextId, req>>

----------------------------------------------------------------------------
(* POST /cart *)

\* a validateCartItem that compares the stock with > instead of <
ValidateCartItemSwapped(p, q) ==
    IF p = 0 \/ q = 0 THEN "ValidationError"
    ELSE IF q < 1 THEN "ValidationError"
    ELSE IF p \notin DOMAIN products THEN "NotFoundError"
    ELSE IF products[p] > q THEN "InsufficientStockError"
    ELSE ""

\* validateCartItem: the error it answers with, or "" when it calls next()
ValidateCartItem(p, q) ==
    IF p = 0 \/ q = 0 THEN "ValidationError"
    ELSE IF q < 1 THEN "ValidationError"
    ELSE IF FindProduct(p) = NoProduct THEN "NotFoundError"
    ELSE IF NotEnoughStock(FindProduct(p).stock, q) THEN "InsufficientStockError"
    ELSE ""

StatusOf(err) ==
    IF err = "NotFoundError" THEN 404
    ELSE IF err = "ForbiddenError" THEN 403
    ELSE IF err = "StorageError" THEN 500
    ELSE 400

AddValidate(r, u, p, q) ==
    /\ req[r].pc = "idle"
    /\ LET err == ValidateCartItem(p, q) IN
       IF err # ""
       THEN /\ Respond("add", StatusOf(err), err, {})
            /\ UNCHANGED req
       ELSE /\ req' = [req EXCEPT ![r] = [pc |-> "addFind", user |-> u, product |-> p,
                                          quantity |-> q, doc |-> NoDoc]]
            /\ NoReply
    /\ UNCHANGED <<products, cart, nextId>>

AddFind(r) ==
    /\ req[r].pc = "addFind"
    /\ LET found == FindByUserProduct(req[r].user, req[r].product) IN
       \E doc \in (IF found = {} THEN {NoDoc} ELSE found) :
           req' = [req EXCEPT ![r].pc = "addSave", ![r].doc = doc]
    /\ NoReply
    /\ UNCHANGED <<products, cart, nextId>>

\* an increment written as an assignment: cartItem.quantity = quantity
AddSaveReplace(r) ==
    LET doc == req[r].doc
        q == req[r].quantity
    IN  IF {e \in cart : e.id = doc.id} # {} /\ q >= 1
        THEN /\ cart' = {IF e.id = doc.id THEN [e EXCEPT !.quantity = q] ELSE e : e \in cart}
             /\ Respond("add", 201, "", {Joined([doc EXCEPT !.quantity = q])})
        ELSE /\ cart' = cart
             /\ Respond("add", 500, "StorageError", {})

\* cartItem.quantity += quantity; await cartItem.save()
AddSaveExisting(r) ==
    LET doc == req[r].doc
        q == doc.quantity + req[r].quantity
    IN  IF FindById(doc.id) # {} /\ SchemaValid(q)
        THEN /\ cart' = UpdateQuantity(cart, doc.id, q)
             /\ Respond("add", 201, "", {Joined([doc EXCEPT !.quantity = q])})
        ELSE /\ cart' = cart
             /\ Respond("add", 500, "StorageError", {})

\* cartItem = new CartItem({...}); await cartItem.save()
AddSaveNew(r) ==
    LET doc == NewCartItem(nextId, req[r].user, req[r].product, req[r].quantity)
    IN  IF SchemaValid(doc.quantity)
        THEN /\ cart' = cart \cup {doc}
             /\ Respond("add", 201, "", {Joined(doc)})
        ELSE /\ cart' = cart
             /\ Respond("add", 500, "StorageError", {})

\* a handler that reserves what it adds: product.stock -= quantity
AddSaveReserving(r) ==
    /\ req[r].pc = "addSave"
    /\ IF req[r].doc # NoDoc
       THEN AddSaveExisting(r) /\ nextId' = nextId
       ELSE AddSaveNew(r) /\ nextId' = nextId + 1
    /\ WithinBounds(cart')
    /\ req' = [req EXCEPT ![r] = Idle]
    /\ products' = [products EXCEPT ![req[r].product] = @ - req[r].quantity]

AddSave(r) ==
    /\ req[r].pc = "addSave"
    /\ IF req[r].doc # NoDoc
       THEN AddSaveExisting(r) /\ nextId' = nextId
       ELSE AddSaveNew(r) /\ nextId' = nextId + 1
    /\ WithinBounds(cart')
    /\ req' = [req EXCEPT ![r] = Idle]
    /\ UNCHANGED products

----------------------------------------------------------------------------
(* PUT /cart/:id *)

\* up to `await cartItem.save()`: the quantity check, CartItem.findById, the
\* ownership check, Product.findOne and the stock check (a null product makes
\* product.stock throw a TypeError, which the catch answers with 500)
UpdateFind(r, u, id, q) ==
    /\ req[r].pc = "idle"
    /\ IF q = 0 \/ q < 1
       THEN Respond("update", 400, "ValidationError", {}) /\ UNCHANGED req
       ELSE IF FindById(id) = {}
       THEN Respond("update", 404, "NotFoundError", {}) /\ UNCHANGED req
       ELSE LET doc == CHOOSE e \in FindById(id) : TRUE
                product == FindProduct(doc.product)
            IN  IF NotOwner(doc, u)
                THEN Respond("update", 403, "ForbiddenError", {}) /\ UNCHANGED req
                ELSE IF product = NoProduct
                THEN Respond("update", 500, "StorageError", {}) /\ UNCHANGED req
                ELSE IF NotEnoughStock(product.stock, q)
                THEN Respond("update", 400, "InsufficientStockError", {}) /\ UNCHANGED req
                ELSE /\ req' = [req EXCEPT ![r] = [pc |-> "updSave", user |-> u,
                                                   product |-> doc.product,
                                                   quantity |-> q, doc |-> doc]]
                     /\ NoReply
    /\ UNCHANGED <<products, cart, nextId>>

\* cartItem.quantity = quantity; await cartItem.save()
\* Assigning the value the document was loaded with marks no path modified, and
\* a save() with no modified path writes nothing; whether it still fails when the
\* document is gone depends on the mongoose version: both outcomes are possible.
UpdateSave(r) ==
    /\ req[r].pc = "updSave"
    /\ LET doc == req[r].doc
           q == req[r].quantity
           ok == Respond("update", 200, "", {Joined([doc EXCEPT !.quantity = q])})
           failed == Respond("update", 500, "StorageError", {})
       IN  IF ~SchemaValid(q)
           THEN cart' = cart /\ failed
           ELSE IF FindById(doc.id) # {}
           THEN cart' = (IF q = doc.quantity THEN cart ELSE UpdateQuantity(cart, doc.id, q))
                /\ ok
           ELSE IF q = doc.quantity
           THEN cart' = cart /\ (ok \/ failed)
           ELSE cart' = cart /\ failed
    /\ WithinBounds(cart')
    /\ req' = [req EXCEPT ![r] = Idle]
    /\ UNCHANGED <<products, nextId>>

----------------------------------------------------------------------------
(* DELETE /cart/:id *)

\* a handler that answers 200 when there is nothing to delete
RemoveFindSilent(r, u, id) ==
    /\ req[r].pc = "idle"
    /\ IF FindById(id) = {}
       THEN Respond("remove", 200, "", {}) /\ UNCHANGED req
       ELSE LET doc == CHOOSE e \in FindById(id) : TRUE IN
            IF NotOwner(doc, u)
            THEN Respond("remove", 403, "ForbiddenError", {}) /\ UNCHANGED req
            ELSE /\ req' = [req EXCEPT ![r] = [pc |-> "remDelete", user |-> u,
                                               product |-> doc.product,
                                               quantity |-> 0, doc |-> doc]]
                 /\ NoReply
    /\ UNCHANGED <<products, cart, nextId>>

RemoveFind(r, u, id) ==
    /\ req[r].pc = "idle"
    /\ IF FindById(id) = {}
       THEN Respond("remove", 404, "NotFoundError", {}) /\ UNCHANGED req
       ELSE LET doc == CHOOSE e \in FindById(id) : TRUE IN
            IF NotOwner(doc, u)
            THEN Respond("remove", 403, "ForbiddenError", {}) /\ UNCHANGED req
            ELSE /\ req' = [req EXCEPT ![r] = [pc |-> "remDelete", user |-> u,
                                               product |-> doc.product,
                                               quantity |-> 0, doc |-> doc]]
                 /\ NoReply
    /\ UNCHANGED <<products, cart, nextId>>

\* a handler that takes one unit off instead of deleting the entry:
\* CartItem.updateOne({ _id }, { $inc: { quantity: -1 } }), which runs no validator
RemoveDecrement(r) ==
    /\ req[r].pc = "remDelete"
    /\ cart' = {IF e.id = req[r].doc.id THEN [e EXCEPT !.quantity = @ - 1] ELSE e : e \in cart}
    /\ Respond("remove", 200, "", {})
    /\ req' = [req EXCEPT ![r] = Idle]
    /\ UNCHANGED <<products, nextId>>

\* await cartItem.deleteOne(); res.json({ message })
RemoveDelete(r) ==
    /\ req[r].pc = "remDelete"
    /\ cart' = DeleteById(cart, req[r].doc.id)
    /\ Respond("remove", 200, "", {})
    /\ req' = [req EXCEPT ![r] = Idle]
    /\ UNCHANGED <<products, nextId>>

----------------------------------------------------------------------------
(* The server: requests handled in the slots S.  A new request is handled in *)
(* the first free slot: which free slot it takes makes no difference.       *)

FreeSlot(S) ==
    {r \in S : req[r].pc = "idle" /\ \A s \in S : req[s].pc = "idle" => r <= s}

Serve(S) ==
    \/ \E stock \in StockInputs : CreateProduct(stock)
    \/ \E r \in FreeSlot(S), u \in Users : ListCart(r, u)
    \/ \E r \in FreeSlot(S), u \in Users, p \in ProductIdInputs, q \in QuantityInputs :
           AddValidate(r, u, p, q)
    \/ \E r \in S : AddFind(r)
    \/ \E r \in S : AddSave(r)
    \/ \E r \in FreeSlot(S), u \in Users, id \in CartIdInputs, q \in QuantityInputs :
           UpdateFind(r, u, id, q)
    \/ \E r \in S : UpdateSave(r)
    \/ \E r \in FreeSlot(S), u \in Users, id \in CartIdInputs : RemoveFind(r, u, id)
    \/ \E r \in S : RemoveDelete(r)

Next == Serve(Slots)
NextSeq == Serve(SeqSlots)

\* requests handled concurrently
Spec == Init /\ [][Next]_vars
\* requests handled one after the other
SeqSpec == Init /\ [][NextSeq]_vars

----------------------------------------------------------------------------
(* Properties of the cart routes *)

Entries(c, u, p) == {e \in c : e.user = u /\ e.product = p}
Ids(c) == {e.id : e \in c}
Sent(op, status, error) ==
    response'.op = op /\ response'.status = status /\ response'.error = error
\* the handler of slot r ended with this step, or never started
Ended(r) == req'[r] = Idle

\* C1: handled one after the other, an AddItem(u, p, q) with 1 <= q <= stock(p) is
\* accepted and answered 201; when (u, p) had no entry it leaves exactly one, of
\* quantity q, and when (u, p) had one entry of quantity k it leaves exactly that
\* entry, of quantity k + q, whatever the stock is.  So AddItem(u, p, a) followed by
\* AddItem(u, p, b) leaves one entry of quantity a + b.
AddAccepted ==
    \A r \in SeqSlots, u \in Users, p \in ProductIdInputs, q \in QuantityInputs :
        (AddValidate(r, u, p, q) /\ q >= 1 /\ p \in DOMAIN products /\ q <= products[p])
            => (response' = NoResponse /\ req'[r].pc = "addFind")
AddIncrements ==
    \A r \in SeqSlots :
        AddSave(r) =>
            LET before == Entries(cart, req[r].user, req[r].product)
                after == Entries(cart', req[r].user, req[r].product)
            IN  /\ Sent("add", 201, "")
                /\ Cardinality(after) = 1
                /\ before = {} => \A e \in after : e.quantity = req[r].quantity
                /\ \A e \in before :
                       after = {[e EXCEPT !.quantity = e.quantity + req[r].quantity]}
C1_AddAccumulates == [][AddAccepted /\ AddIncrements]_vars

\* an Add was answered with an entry that holds more than the product's stock
C1_Witness ==
    /\ response.op = "add" /\ response.status = 201
    /\ \E b \in response.body : b.quantity > b.product.stock

\* C2: in every reachable state every cart entry has quantity >= 1
C2_QuantityPositive == \A e \in cart : e.quantity >= 1

\* an Update has set an entry to quantity 1
C2_Witness ==
    /\ response.op = "update" /\ response.status = 200
    /\ \E e \in cart, b \in response.body : e.id = b.id /\ e.quantity = 1

\* C3 (amended): an UpdateItem(B, e, n) with n >= 1 and a RemoveItem(B, e) by a user
\* B who does not own the entry e are answered 403 ForbiddenError and change no
\* entry; and an entry changes or disappears only in a step of a request of its owner.
NonOwner(u, id) == \E e \in cart : e.id = id /\ e.user # u
Forbidden(op) == Sent(op, 403, "ForbiddenError") /\ cart' = cart /\ req' = req
UpdateForbidden ==
    \A r \in Slots, u \in Users, id \in CartIdInputs, q \in QuantityInputs :
        (UpdateFind(r, u, id, q) /\ q >= 1 /\ NonOwner(u, id)) => Forbidden("update")
RemoveForbidden ==
    \A r \in Slots, u \in Users, id \in CartIdInputs :
        (RemoveFind(r, u, id) /\ NonOwner(u, id)) => Forbidden("remove")
OnlyOwnerMutates ==
    \A e \in cart :
        e \notin cart' =>
            \E r \in Slots : req[r].pc # "idle" /\ Ended(r) /\ req[r].user = e.user
C3_Ownership == [][UpdateForbidden /\ RemoveForbidden /\ OnlyOwnerMutates]_vars

\* a request on an entry was answered 403 and the entry is there
C3_Witness == response.error = "ForbiddenError" /\ response.status = 403 /\ cart # {}

\* C3 as claimed: every UpdateItem(B, e, n) of a non-owner, whatever n is, is
\* answered ForbiddenError
C3_ForbiddenAnyQuantity ==
    [][\A r \in Slots, u \in Users, id \in CartIdInputs, q \in QuantityInputs :
           (UpdateFind(r, u, id, q) /\ NonOwner(u, id)) => Forbidden("update")]_vars

\* C4: handled one after the other, an UpdateItem(u, e, n) with n >= 1 by the owner
\* of the entry e is answered 400 InsufficientStockError and changes nothing when
\* n > stock, and otherwise is answered 200 and sets e's quantity to n, which is
\* then <= the stock.
Owned(u, id) == {e \in cart : e.id = id /\ e.user = u}
UpdateChecked ==
    \A r \in SeqSlots, u \in Users, id \in CartIdInputs, q \in QuantityInputs :
        (UpdateFind(r, u, id, q) /\ q >= 1) =>
            \A e \in Owned(u, id) :
                IF q > products[e.product]
                THEN Sent("update", 400, "InsufficientStockError")
                     /\ cart' = cart /\ req' = req
                ELSE response' = NoResponse /\ req'[r].pc = "updSave"
UpdateSets ==
    \A r \in SeqSlots :
        UpdateSave(r) =>
            /\ Sent("update", 200, "")
            /\ \E e \in cart :
                   /\ e.id = req[r].doc.id
                   /\ cart' = (cart \ {e}) \cup {[e EXCEPT !.quantity = req[r].quantity]}
                   /\ req[r].quantity <= products[e.product]
C4_UpdateSetsWithinStock == [][UpdateChecked /\ UpdateSets]_vars

\* an Update was refused for lack of stock
C4_Witness ==
    /\ response.op = "update" /\ response.error = "InsufficientStockError"
    /\ cart # {}

\* C5 (amended): an AddItem(u, p, q) is answered 400 ValidationError when q < 1,
\* 404 NotFoundError when q >= 1 and p is a non-zero id that is not in the catalog
\* (a productId of 0 counts as missing: 400 ValidationError), and 400
\* InsufficientStockError when q >= 1, p is in the catalog and stock(p) < q; and an
\* AddItem that fails, in validation or in save(), changes no cart entry.
AddRejected ==
    \A r \in Slots, u \in Users, p \in ProductIdInputs, q \in QuantityInputs :
        AddValidate(r, u, p, q) =>
            /\ q < 1 => Sent("add", 400, "ValidationError")
            /\ (q >= 1 /\ p = 0) => Sent("add", 400, "ValidationError")
            /\ (q >= 1 /\ p # 0 /\ p \notin DOMAIN products) =>
                   Sent("add", 404, "NotFoundError")
            /\ (q >= 1 /\ p \in DOMAIN products /\ products[p] < q) =>
                   Sent("add", 400, "InsufficientStockError")
            /\ response' # NoResponse => (cart' = cart /\ req' = req)
AddFailedInSave ==
    \A r \in Slots : (AddSave(r) /\ response'.status # 201) => cart' = cart
C5_FailedAddChangesNothing == [][AddRejected /\ AddFailedInSave]_vars

\* an Add was refused for lack of stock while the cart holds an entry
C5_Witness ==
    /\ response.op = "add" /\ response.error = "InsufficientStockError"
    /\ cart # {}

\* C5 as claimed: every AddItem with a product id that is not in the catalog
\* (and q >= 1) is answered NotFoundError
C5_NotFoundForAnyId ==
    [][\A r \in Slots, u \in Users, p \in ProductIdInputs, q \in QuantityInputs :
           (AddValidate(r, u, p, q) /\ q >= 1 /\ p \notin DOMAIN products) =>
               Sent("add", 404, "NotFoundError")]_vars

\* C6: a RemoveItem(u, e) by the owner of an existing entry e goes on to delete e
\* and is answered 200; a RemoveItem or an UpdateItem (n >= 1) for the id of an
\* entry that is gone is answered 404 NotFoundError and changes nothing; and an id
\* that is gone is never in the collection again.
Gone == {id \in 1..(nextId - 1) : id \notin Ids(cart)}
RemoveByOwner ==
    \A r \in Slots, u \in Users, id \in CartIdInputs :
        (RemoveFind(r, u, id) /\ Owned(u, id) # {}) =>
            (response' = NoResponse /\ req'[r].pc = "remDelete" /\ req'[r].doc.id = id)
RemoveDeletes ==
    \A r \in Slots :
        RemoveDelete(r) => (Sent("remove", 200, "") /\ req[r].doc.id \notin Ids(cart'))
NotFound(op) == Sent(op, 404, "NotFoundError") /\ cart' = cart /\ req' = req
GoneIsNotFound ==
    \A r \in Slots, u \in Users, id \in Gone :
        /\ RemoveFind(r, u, id) => NotFound("remove")
        /\ \A q \in QuantityInputs :
               (UpdateFind(r, u, id, q) /\ q >= 1) => NotFound("update")
GoneForGood == \A id \in Gone : id \notin Ids(cart')
C6_RemovedStaysRemoved ==
    [][RemoveByOwner /\ RemoveDeletes /\ GoneIsNotFound /\ GoneForGood]_vars

\* a Remove was answered 404 when every entry ever inserted has been removed
C6_Witness ==
    /\ response.op = "remove" /\ response.error = "NotFoundError"
    /\ nextId > MaxItems /\ cart = {}

\* C7: ListCart(u) is answered 200 with exactly the entries whose owner is u, each
\* joined with its product, and changes no cart entry and no product.
ListExact ==
    \A r \in Slots, u \in Users :
        ListCart(r, u) =>
            /\ response'.op = "list" /\ response'.status = 200
            /\ response'.body = {Joined(e) : e \in {x \in cart : x.user = u}}
            /\ \A b \in response'.body : b.user = u
            /\ cart' = cart /\ products' = products
C7_ListOnlyOwn == [][ListExact]_vars

\* a list was answered with entries while the cart holds another user's entry
C7_Witness ==
    /\ response.op = "list" /\ response.body # {}
    /\ \E e \in cart : \A b \in response.body : b.user # e.user

\* C8: a step of a cart route (one that moves a handler or sends a response)
\* leaves the catalog, and so every product's stock, as it was.
CartRouteStep == req' # req \/ response' # NoResponse
C8_StockUntouched == [][CartRouteStep => products' = products]_vars

\* an Update was answered 200 for an entry that holds the whole stock of its product
C8_Witness ==
    /\ response.op = "update" /\ response.status = 200
    /\ \E b \in response.body : b.quantity = b.product.stock

\* C9: at most one cart entry per (user, product) pair in every reachable state
C9_OnePerPair ==
    \A e1, e2 \in cart : (e1.user = e2.user /\ e1.product = e2.product) => e1 = e2

\* C10: no increment is lost.  When an AddItem(u, p, b) that read the entry at
\* quantity k saves right after another AddItem(u, p, a) was answered 201 with the
\* entry at k + a (so the two handlers interleaved), and is answered 201 too, the
\* entry holds k + a + b.
C10_NoLostIncrement ==
    [][\A r \in Slots :
           (/\ AddSave(r) /\ req[r].doc # NoDoc
            /\ response.op = "add" /\ response.status = 201
            /\ \E b \in response.body :
                   b.id = req[r].doc.id /\ b.quantity > req[r].doc.quantity
            /\ response'.status = 201)
           => \E b \in response.body, e \in cart' :
                  e.id = b.id /\ e.quantity = b.quantity + req[r].quantity]_vars

====
